---- MODULE Spec2Model ----
(***************************************************************************)
(* BGP simulator (src/src/bgp_simulator.cpp, src/src/main.cpp): the AS     *)
(* graph, the customer-provider cycle check, graph flattening, the         *)
(* Gao-Rexford export policy, the decision process and the three-phase     *)
(* propagation loop, driven by main().                                     *)
(***************************************************************************)
EXTENDS Integers, Sequences, FiniteSets, TLC

\* ---------------------------------------------------------------- bounds
MaxASN == 3
MaxRels == 2
NumPrefixes == 1
MaxSeeds == 2

ASNs == 1..MaxASN
Prefixes == 1..NumPrefixes

\* ------------------------------------------------------------ enum values
P2C == "PROVIDER_TO_CUSTOMER"
PEER == "PEER_TO_PEER"
C2P == "CUSTOMER_TO_PROVIDER"
RelationType == {P2C, PEER, C2P}

FROM_CUSTOMER == "LEARNED_FROM_CUSTOMER"
FROM_PEER == "LEARNED_FROM_PEER"
FROM_PROVIDER == "LEARNED_FROM_PROVIDER"
AnnouncementType == {FROM_CUSTOMER, FROM_PEER, FROM_PROVIDER}

\* rel_type_int values of a relationships line: -1 provider, 0 peer, anything
\* else (here 1) is skipped by the loader.
RelCodes == {-1, 0, 1}

\* The 20-iteration cap of propagate.
IterationCap == 20

NoRoute == [none |-> TRUE]

VARIABLES
    pc,                \* position of main() / propagate()
    adjacency,         \* ASGraph::adjacency: asn -> sequence of <<neighbor, rel>>
    all_asns,          \* ASGraph::all_asns
    rov_enabled_asns,  \* BGPSimulator::rov_enabled_asns
    ribs,              \* BGPSimulator::ribs: asn -> prefix -> Route or NoRoute
    message_queues,    \* BGPSimulator::message_queues: asn -> prefix -> Seq(Route)
    rank_to_asns,      \* BGPSimulator::rank_to_asns (rank r is element r+1)
    iteration,         \* propagate: int iteration
    prev_total_routes, \* propagate: int prev_total_routes
    rank,              \* propagate: loop variable rank of the running phase
    cycle_detected,    \* main: <<result of has_customer_provider_cycle>>, <<>> before the call
    converged,         \* main: <<bool converged>>, <<>> before propagate returns
    exit_code,         \* main: <<return value>>, <<>> while running
    ribs_csv,          \* <<rows written by export_ribs_csv>>, <<>> while no file was written
    seeded,            \* input history: asn -> prefix -> <<last rov_invalid seeded>>, <<>> if none
    num_seeded,        \* input history: number of announcement rows read
    iter_start_total,  \* history: total RIB entries when the running iteration began
    end_totals,        \* history: total RIB entries at the end of each iteration
    cmp                \* inputs and result of a better_route evaluation (SpecBetter)

vars == <<pc, adjacency, all_asns, rov_enabled_asns, ribs, message_queues,
          rank_to_asns, iteration, prev_total_routes, rank, cycle_detected,
          converged, exit_code, ribs_csv, seeded, num_seeded, iter_start_total,
          end_totals, cmp>>

\* ------------------------------------------------------------------ Route
Route(prefix, as_path, type, rov_invalid) ==
    [prefix |-> prefix, as_path |-> as_path,
     announcement_type |-> type, rov_invalid |-> rov_invalid]

get_origin_asn(route) ==
    IF route.as_path = <<>> THEN -1 ELSE route.as_path[Len(route.as_path)]

\* The ASN is appended at the tail instead.
prepend_at_tail(route, asn) == [route EXCEPT !.as_path = @ \o <<asn>>]

prepend(route, asn) == [route EXCEPT !.as_path = <<asn>> \o @]

\* ---------------------------------------------------------------- ASGraph
reverse_rel(rel_type) ==
    CASE rel_type = P2C -> C2P
      [] rel_type = C2P -> P2C
      [] OTHER -> PEER

add_relationship(adj, asns, asn1, asn2, rel_type) ==
    LET a1 == [adj EXCEPT ![asn1] = Append(@, <<asn2, rel_type>>)]
        a2 == [a1 EXCEPT ![asn2] = Append(@, <<asn1, reverse_rel(rel_type)>>)]
    IN  [adjacency |-> a2, all_asns |-> asns \cup {asn1, asn2}]

\* load_from_file over the parsed lines <<asn1, asn2, rel_type_int>>.
RECURSIVE load_from_file(_, _, _, _)
load_from_file(adj, asns, lines, i) ==
    IF i > Len(lines) THEN [adjacency |-> adj, all_asns |-> asns]
    ELSE LET l == lines[i] IN
         IF l[3] = -1 THEN
             LET g == add_relationship(adj, asns, l[1], l[2], P2C)
             IN  load_from_file(g.adjacency, g.all_asns, lines, i + 1)
         ELSE IF l[3] = 0 THEN
             LET g == add_relationship(adj, asns, l[1], l[2], PEER)
             IN  load_from_file(g.adjacency, g.all_asns, lines, i + 1)
         ELSE load_from_file(adj, asns, lines, i + 1)

get_neighbors(asn) == adjacency[asn]

\* Orders in which a hash container holding the set S can be iterated.
IterationOrders(S) ==
    {s \in [1..Cardinality(S) -> S] : \A i, j \in 1..Cardinality(S) : s[i] = s[j] => i = j}

\* has_customer_provider_cycle: three-colour DFS along CUSTOMER_TO_PROVIDER
\* edges.  dfs returns <<found, color>>.
RECURSIVE dfs(_, _)
RECURSIVE dfs_neighbors(_, _, _)
\* Peer edges are followed as well.
RECURSIVE dfs_neighbors_peers_too(_, _, _)
dfs_neighbors_peers_too(u, k, color) ==
    IF k > Len(adjacency[u]) THEN <<FALSE, [color EXCEPT ![u] = "BLACK"]>>
    ELSE LET v == adjacency[u][k][1]
             rel == adjacency[u][k][2]
         IN  IF rel = P2C THEN dfs_neighbors_peers_too(u, k + 1, color)
             ELSE IF color[v] = "GRAY" THEN <<TRUE, color>>
             ELSE IF color[v] = "WHITE" THEN
                 LET r == dfs(v, color)
                 IN  IF r[1] THEN r ELSE dfs_neighbors_peers_too(u, k + 1, r[2])
             ELSE dfs_neighbors_peers_too(u, k + 1, color)

dfs_neighbors(u, k, color) ==
    IF k > Len(adjacency[u]) THEN <<FALSE, [color EXCEPT ![u] = "BLACK"]>>
    ELSE LET v == adjacency[u][k][1]
             rel == adjacency[u][k][2]
         IN  IF rel # C2P THEN dfs_neighbors(u, k + 1, color)
             ELSE IF color[v] = "GRAY" THEN <<TRUE, color>>
             ELSE IF color[v] = "WHITE" THEN
                 LET r == dfs(v, color)
                 IN  IF r[1] THEN r ELSE dfs_neighbors(u, k + 1, r[2])
             ELSE dfs_neighbors(u, k + 1, color)

dfs(u, color) == dfs_neighbors(u, 1, [color EXCEPT ![u] = "GRAY"])

RECURSIVE cycle_from(_, _, _)
cycle_from(order, i, color) ==
    IF i > Len(order) THEN FALSE
    ELSE IF color[order[i]] = "WHITE" THEN
        LET r == dfs(order[i], color)
        IN  IF r[1] THEN TRUE ELSE cycle_from(order, i + 1, r[2])
    ELSE cycle_from(order, i + 1, color)

\* order: the iteration order of all_asns.
has_customer_provider_cycle(order) ==
    cycle_from(order, 1, [a \in ASNs |-> "WHITE"])

\* ----------------------------------------------------------- BGPSimulator
\* A second call for the same slot extends the installed path by the origin.
seed_announcement_extends(r, origin_asn, prefix, rov_invalid) ==
    [r EXCEPT ![origin_asn][prefix] =
        IF @ = NoRoute
        THEN Route(prefix, <<origin_asn>>, FROM_CUSTOMER, rov_invalid)
        ELSE Route(prefix, <<origin_asn>> \o @.as_path, FROM_CUSTOMER, rov_invalid)]

\* seed_announcement: the origin joins all_asns and its RIB slot is overwritten.
seed_announcement(r, origin_asn, prefix, rov_invalid) ==
    [r EXCEPT ![origin_asn][prefix] =
        Route(prefix, <<origin_asn>>, FROM_CUSTOMER, rov_invalid)]

\* The count is taken over the CustomerToProvider entries (providers, not customers).
RECURSIVE count_customers_providers(_, _)
count_customers_providers(nbrs, k) ==
    IF k > Len(nbrs) THEN 0
    ELSE (IF nbrs[k][2] = C2P THEN 1 ELSE 0) + count_customers_providers(nbrs, k + 1)

\* flatten_graph.  customer_count of every AS in all_asns.
RECURSIVE count_customers(_, _)
count_customers(nbrs, k) ==
    IF k > Len(nbrs) THEN 0
    ELSE (IF nbrs[k][2] = P2C THEN 1 ELSE 0) + count_customers(nbrs, k + 1)

customer_count == [a \in all_asns |-> count_customers(get_neighbors(a), 1)]

\* A provider is pushed as soon as its first customer is drained.
RECURSIVE drain_neighbors_first_customer(_, _, _)
drain_neighbors_first_customer(nbrs, k, st) ==
    IF k > Len(nbrs) THEN st
    ELSE IF nbrs[k][2] = C2P THEN
        LET n == nbrs[k][1]
            cc2 == [st.cc EXCEPT ![n] = 0]
        IN  drain_neighbors_first_customer(nbrs, k + 1,
                [cc |-> cc2,
                 queue |-> IF st.cc[n] > 0 THEN Append(st.queue, n) ELSE st.queue])
    ELSE drain_neighbors_first_customer(nbrs, k + 1, st)

\* A provider is pushed already when one customer is left to drain, and again at zero.
RECURSIVE drain_neighbors_push_early(_, _, _)
drain_neighbors_push_early(nbrs, k, st) ==
    IF k > Len(nbrs) THEN st
    ELSE IF nbrs[k][2] = C2P THEN
        LET n == nbrs[k][1]
            cc2 == [st.cc EXCEPT ![n] = @ - 1]
        IN  drain_neighbors_push_early(nbrs, k + 1,
                [cc |-> cc2,
                 queue |-> IF cc2[n] \in {0, 1} THEN Append(st.queue, n) ELSE st.queue])
    ELSE drain_neighbors_push_early(nbrs, k + 1, st)

\* Inner loop over the neighbours of a drained AS: decrement the providers'
\* counts and push those that reach zero.  st = [cc, queue].
RECURSIVE drain_neighbors(_, _, _)
drain_neighbors(nbrs, k, st) ==
    IF k > Len(nbrs) THEN st
    ELSE IF nbrs[k][2] = C2P THEN
        LET n == nbrs[k][1]
            cc2 == [st.cc EXCEPT ![n] = @ - 1]
        IN  drain_neighbors(nbrs, k + 1,
                [cc |-> cc2,
                 queue |-> IF cc2[n] = 0 THEN Append(st.queue, n) ELSE st.queue])
    ELSE drain_neighbors(nbrs, k + 1, st)

\* One level wave: the ASes of `level` are popped in order.
RECURSIVE drain_level(_, _, _)
drain_level(level, i, st) ==
    IF i > Len(level) THEN st
    ELSE drain_level(level, i + 1, drain_neighbors(get_neighbors(level[i]), 1, st))

\* The while loop: every wave becomes one rank group.
RECURSIVE flatten_waves(_, _, _)
flatten_waves(queue, cc, ranks) ==
    IF queue = <<>> THEN ranks
    ELSE LET st == drain_level(queue, 1, [cc |-> cc, queue |-> <<>>])
         IN  flatten_waves(st.queue, st.cc, Append(ranks, queue))

\* zero_order: the order in which the iteration of customer_count meets the
\* ASes whose count is zero.
flatten_graph(zero_order) == flatten_waves(zero_order, customer_count, <<>>)

ZeroCustomerASNs == {a \in all_asns : customer_count[a] = 0}

\* The type is taken from the sender's side of the edge.
relationship_to_announcement_type_senders_view(rel_type) ==
    CASE rel_type = C2P -> FROM_PROVIDER
      [] rel_type = PEER -> FROM_PEER
      [] rel_type = P2C -> FROM_CUSTOMER
      [] OTHER -> FROM_PROVIDER

relationship_to_announcement_type(rel_type) ==
    CASE rel_type = C2P -> FROM_CUSTOMER
      [] rel_type = PEER -> FROM_PEER
      [] rel_type = P2C -> FROM_PROVIDER
      [] OTHER -> FROM_PROVIDER

\* A customer-learned route is not exported to peers.
can_export_not_to_peers(route, export_relationship) ==
    CASE route.announcement_type = FROM_CUSTOMER -> export_relationship # PEER
      [] route.announcement_type = FROM_PROVIDER -> export_relationship = P2C
      [] route.announcement_type = FROM_PEER -> export_relationship = P2C
      [] OTHER -> FALSE

\* A peer-learned route is exported to peers as well.
can_export_peer_to_peer(route, export_relationship) ==
    CASE route.announcement_type = FROM_CUSTOMER -> TRUE
      [] route.announcement_type = FROM_PROVIDER -> export_relationship = P2C
      [] route.announcement_type = FROM_PEER -> export_relationship \in {P2C, PEER}
      [] OTHER -> FALSE

can_export(route, export_relationship) ==
    CASE route.announcement_type = FROM_CUSTOMER -> TRUE
      [] route.announcement_type = FROM_PROVIDER -> export_relationship = P2C
      [] route.announcement_type = FROM_PEER -> export_relationship = P2C
      [] OTHER -> FALSE

local_pref(route) ==
    IF route.announcement_type = FROM_CUSTOMER THEN 2
    ELSE IF route.announcement_type = FROM_PEER THEN 1 ELSE 0

next_hop(route) ==
    IF Len(route.as_path) >= 2 THEN route.as_path[2] ELSE route.as_path[1]

\* Without the next-hop criterion: of two routes equal in preference and
\* length the installed one stays.
better_route_no_next_hop(new_route, existing_route, deciding_asn) ==
    IF deciding_asn \in rov_enabled_asns
       /\ new_route.rov_invalid # existing_route.rov_invalid
    THEN ~new_route.rov_invalid
    ELSE IF local_pref(new_route) # local_pref(existing_route)
    THEN local_pref(new_route) > local_pref(existing_route)
    ELSE IF Len(new_route.as_path) # Len(existing_route.as_path)
    THEN Len(new_route.as_path) < Len(existing_route.as_path)
    ELSE FALSE

\* The next-hop tie-break is not strict.
better_route_tie_wins(new_route, existing_route, deciding_asn) ==
    IF deciding_asn \in rov_enabled_asns
       /\ new_route.rov_invalid # existing_route.rov_invalid
    THEN ~new_route.rov_invalid
    ELSE IF local_pref(new_route) # local_pref(existing_route)
    THEN local_pref(new_route) > local_pref(existing_route)
    ELSE IF Len(new_route.as_path) # Len(existing_route.as_path)
    THEN Len(new_route.as_path) < Len(existing_route.as_path)
    ELSE next_hop(new_route) <= next_hop(existing_route)

better_route(new_route, existing_route, deciding_asn) ==
    IF deciding_asn \in rov_enabled_asns
       /\ new_route.rov_invalid # existing_route.rov_invalid
    THEN ~new_route.rov_invalid
    ELSE IF local_pref(new_route) # local_pref(existing_route)
    THEN local_pref(new_route) > local_pref(existing_route)
    ELSE IF Len(new_route.as_path) # Len(existing_route.as_path)
    THEN Len(new_route.as_path) < Len(existing_route.as_path)
    ELSE next_hop(new_route) < next_hop(existing_route)

InPath(asn, as_path) == \E i \in 1..Len(as_path) : as_path[i] = asn

\* The copy loses the rov_invalid flag.
sent_route_flag_reset(receiver_asn, route, relationship) ==
    [prepend(route, receiver_asn) EXCEPT
        !.announcement_type = relationship_to_announcement_type(relationship),
        !.rov_invalid = FALSE]

\* The route enqueued at the receiver (lines 318-320).
sent_route(receiver_asn, route, relationship) ==
    [prepend(route, receiver_asn) EXCEPT
        !.announcement_type = relationship_to_announcement_type(relationship)]

\* The loop check of line 310 is missing.
send_route_to_neighbor_no_loop_check(mq, sender_asn, receiver_asn, route, relationship) ==
    IF ~can_export(route, relationship) THEN mq
    ELSE [mq EXCEPT ![receiver_asn][route.prefix] =
             Append(@, sent_route(receiver_asn, route, relationship))]

\* send_route_to_neighbor: the message queues after the call.
send_route_to_neighbor(mq, sender_asn, receiver_asn, route, relationship) ==
    IF InPath(receiver_asn, route.as_path) THEN mq
    ELSE IF ~can_export(route, relationship) THEN mq
    ELSE [mq EXCEPT ![receiver_asn][route.prefix] =
             Append(@, sent_route(receiver_asn, route, relationship))]

\* The ROV check of lines 337-339 is missing.
RECURSIVE process_routes_no_rov(_, _, _, _)
process_routes_no_rov(slot, routes, i, asn) ==
    IF i > Len(routes) THEN slot
    ELSE LET route == routes[i] IN
         IF slot = NoRoute
         THEN process_routes_no_rov(route, routes, i + 1, asn)
         ELSE IF better_route(route, slot, asn)
         THEN process_routes_no_rov(route, routes, i + 1, asn)
         ELSE process_routes_no_rov(slot, routes, i + 1, asn)

\* An ROV drop also withdraws the installed route.
RECURSIVE process_routes_drop_withdraws(_, _, _, _)
process_routes_drop_withdraws(slot, routes, i, asn) ==
    IF i > Len(routes) THEN slot
    ELSE LET route == routes[i] IN
         IF asn \in rov_enabled_asns /\ route.rov_invalid
         THEN process_routes_drop_withdraws(NoRoute, routes, i + 1, asn)
         ELSE IF slot = NoRoute
         THEN process_routes_drop_withdraws(route, routes, i + 1, asn)
         ELSE IF better_route(route, slot, asn)
         THEN process_routes_drop_withdraws(route, routes, i + 1, asn)
         ELSE process_routes_drop_withdraws(slot, routes, i + 1, asn)

\* process_messages, the loop over the routes queued under one prefix:
\* the RIB slot (a Route or NoRoute) after routes[i..] were considered.
RECURSIVE process_routes(_, _, _, _)
process_routes(slot, routes, i, asn) ==
    IF i > Len(routes) THEN slot
    ELSE LET route == routes[i] IN
         IF asn \in rov_enabled_asns /\ route.rov_invalid
         THEN process_routes(slot, routes, i + 1, asn)
         ELSE IF slot = NoRoute
         THEN process_routes(route, routes, i + 1, asn)
         ELSE IF better_route(route, slot, asn)
         THEN process_routes(route, routes, i + 1, asn)
         ELSE process_routes(slot, routes, i + 1, asn)

\* The calls of better_route (line 346) made by that loop: the pairs
\* <<candidate, installed route>>.
RECURSIVE comparisons(_, _, _, _)
comparisons(slot, routes, i, asn) ==
    IF i > Len(routes) THEN {}
    ELSE LET route == routes[i] IN
         IF asn \in rov_enabled_asns /\ route.rov_invalid
         THEN comparisons(slot, routes, i + 1, asn)
         ELSE IF slot = NoRoute
         THEN comparisons(route, routes, i + 1, asn)
         ELSE {<<route, slot>>} \cup
              comparisons(IF better_route(route, slot, asn) THEN route ELSE slot,
                          routes, i + 1, asn)

\* The queue is not cleared after the decision process ran (line 353 missing).
process_messages_keeps_queue(st, asn) ==
    [ribs |-> [st.ribs EXCEPT ![asn] =
                  [p \in Prefixes |-> process_routes(st.ribs[asn][p], st.mq[asn][p], 1, asn)]],
     mq |-> st.mq]

\* process_messages(asn): st = [ribs, mq].  The prefixes of the queue are
\* independent of each other (each touches only its own RIB slot), so the
\* order in which the hash map yields them does not show in the result.
process_messages(st, asn) ==
    [ribs |-> [st.ribs EXCEPT ![asn] =
                  [p \in Prefixes |-> process_routes(st.ribs[asn][p], st.mq[asn][p], 1, asn)]],
     mq |-> [st.mq EXCEPT ![asn] = [p \in Prefixes |-> <<>>]]]

\* ---------------------------------------------- propagate: one rank's sends
\* The loop over the neighbours of asn, sending `route` along the edges of
\* type rel_filter.
RECURSIVE send_to_neighbors(_, _, _, _, _, _)
send_to_neighbors(mq, asn, route, nbrs, k, rel_filter) ==
    IF k > Len(nbrs) THEN mq
    ELSE IF nbrs[k][2] = rel_filter
    THEN send_to_neighbors(
             send_route_to_neighbor(mq, asn, nbrs[k][1], route, nbrs[k][2]),
             asn, route, nbrs, k + 1, rel_filter)
    ELSE send_to_neighbors(mq, asn, route, nbrs, k + 1, rel_filter)

\* The loop over the RIB of asn, r being the RIBs that are read.  A route is
\* enqueued under its own prefix only, so the order in which the hash map
\* yields the prefixes does not show in any queue; the prefixes are taken in
\* ascending order.
RECURSIVE send_rib_of(_, _, _, _, _)
send_rib_of(r, mq, asn, p, rel_filter) ==
    IF p > NumPrefixes THEN mq
    ELSE IF r[asn][p] = NoRoute THEN send_rib_of(r, mq, asn, p + 1, rel_filter)
    ELSE send_rib_of(r,
                     send_to_neighbors(mq, asn, r[asn][p], get_neighbors(asn), 1, rel_filter),
                     asn, p + 1, rel_filter)

send_rib(mq, asn, p, rel_filter) == send_rib_of(ribs, mq, asn, p, rel_filter)

\* The loop over the ASes of one rank group ("send from this rank").
RECURSIVE send_from_rank_of(_, _, _, _, _)
send_from_rank_of(r, mq, asns, i, rel_filter) ==
    IF i > Len(asns) THEN mq
    ELSE send_from_rank_of(r, send_rib_of(r, mq, asns[i], 1, rel_filter),
                           asns, i + 1, rel_filter)

send_from_rank(mq, asns, i, rel_filter) == send_from_rank_of(ribs, mq, asns, i, rel_filter)

\* The loop calling process_messages on the ASes of one rank group.
RECURSIVE process_rank(_, _, _)
process_rank(st, asns, i) ==
    IF i > Len(asns) THEN st
    ELSE process_rank(process_messages(st, asns[i]), asns, i + 1)

RECURSIVE SumOver(_, _)
SumOver(f, S) ==
    IF S = {} THEN 0
    ELSE LET x == CHOOSE y \in S : TRUE IN f[x] + SumOver(f, S \ {x})

\* get_rib_count / the total_routes loop of propagate.
get_rib_count(r) ==
    SumOver([a \in ASNs |-> Cardinality({p \in Prefixes : r[a][p] # NoRoute})], ASNs)

EmptyQueues == [a \in ASNs |-> [p \in Prefixes |-> <<>>]]

\* ------------------------------- propagate as a function of its inputs
\* st = [ribs, mq]; ranks is the Rank Index; rk is the loop variable rank, from 0.
\* Phase 1 from rank rk on (lines 369-390).
RECURSIVE phase1_from(_, _, _)
phase1_from(st, ranks, rk) ==
    IF rk >= Len(ranks) THEN st
    ELSE LET sent == [ribs |-> st.ribs,
                      mq |-> send_from_rank_of(st.ribs, st.mq, ranks[rk + 1], 1, C2P)]
         IN  IF rk + 1 < Len(ranks)
             THEN phase1_from(process_rank(sent, ranks[rk + 2], 1), ranks, rk + 1)
             ELSE sent

\* Phase 2 from rank rk on (lines 394-411).
RECURSIVE phase2_from(_, _, _)
phase2_from(st, ranks, rk) ==
    IF rk >= Len(ranks) THEN st
    ELSE LET sent == [ribs |-> st.ribs,
                      mq |-> send_from_rank_of(st.ribs, st.mq, ranks[rk + 1], 1, PEER)]
         IN  phase2_from(process_rank(sent, ranks[rk + 1], 1), ranks, rk + 1)

\* Phase 3 from rank rk down (lines 415-436).
RECURSIVE phase3_from(_, _, _)
phase3_from(st, ranks, rk) ==
    IF rk < 0 THEN st
    ELSE LET sent == [ribs |-> st.ribs,
                      mq |-> send_from_rank_of(st.ribs, st.mq, ranks[rk + 1], 1, P2C)]
         IN  IF rk > 0
             THEN phase3_from(process_rank(sent, ranks[rk], 1), ranks, rk - 1)
             ELSE sent

\* The while (true) loop of propagate, entered with `iter` iterations done:
\* [ribs, result] at the return.
RECURSIVE propagate_loop(_, _, _, _)
propagate_loop(st, ranks, iter, prev_total) ==
    LET after == phase3_from(phase2_from(phase1_from(st, ranks, 0), ranks, 0),
                             ranks, Len(ranks) - 1)
        total_routes == get_rib_count(after.ribs)
    IN  IF total_routes = prev_total THEN [ribs |-> after.ribs, result |-> TRUE]
        ELSE IF iter + 1 >= IterationCap THEN [ribs |-> after.ribs, result |-> FALSE]
        ELSE propagate_loop(after, ranks, iter + 1, total_routes)

\* propagate on the RIBs r with empty queues, flatten_graph having met the
\* zero-customer ASes in zero_order.
propagate(r, zero_order) ==
    propagate_loop([ribs |-> r, mq |-> EmptyQueues], flatten_graph(zero_order), 0, 0)

NumRanks == Len(rank_to_asns)
RankGroup(r) == rank_to_asns[r + 1]

\* export_ribs_csv: the rows <<asn, prefix, as_path>>, sorted.
RECURSIVE csv_rows(_, _, _)
csv_rows(r, a, p) ==
    IF a > MaxASN THEN <<>>
    ELSE IF p > NumPrefixes THEN csv_rows(r, a + 1, 1)
    ELSE (IF r[a][p] = NoRoute THEN <<>> ELSE << <<a, p, r[a][p].as_path>> >>)
         \o csv_rows(r, a, p + 1)

export_ribs_csv(r) == csv_rows(r, 1, 1)

\* ------------------------------------------------------------------ state
EmptyRibs == [a \in ASNs |-> [p \in Prefixes |-> NoRoute]]
NoCmp == [used |-> FALSE]

Init ==
    /\ pc = "load"
    /\ adjacency = [a \in ASNs |-> <<>>]
    /\ all_asns = {}
    /\ rov_enabled_asns = {}
    /\ ribs = EmptyRibs
    /\ message_queues = EmptyQueues
    /\ rank_to_asns = <<>>
    /\ iteration = 0
    /\ prev_total_routes = 0
    /\ rank = 0
    /\ cycle_detected = <<>>
    /\ converged = <<>>
    /\ exit_code = <<>>
    /\ ribs_csv = <<>>
    /\ seeded = [a \in ASNs |-> [p \in Prefixes |-> <<>>]]
    /\ num_seeded = 0
    /\ iter_start_total = 0
    /\ end_totals = <<>>
    /\ cmp = NoCmp

graphVars == <<adjacency, all_asns>>
routeVars == <<ribs, message_queues>>
loopVars == <<rank_to_asns, iteration, prev_total_routes, rank>>
mainVars == <<cycle_detected, converged, exit_code, ribs_csv>>
seedVars == <<seeded, num_seeded>>
histVars == <<iter_start_total, end_totals>>

\* -------------------------------------------------------------------- main
\* main line 140: graph.load_from_file on a relationships file of at most
\* MaxRels lines.
LoadGraph ==
    /\ pc = "load"
    /\ \E n \in 0..MaxRels : \E lines \in [1..n -> ASNs \X ASNs \X RelCodes] :
          LET g == load_from_file(adjacency, all_asns, lines, 1)
          IN  /\ adjacency' = g.adjacency
              /\ all_asns' = g.all_asns
    /\ pc' = "cycle_check"
    /\ UNCHANGED <<rov_enabled_asns, routeVars, loopVars, mainVars, seedVars, histVars, cmp>>

\* load_from_file / load_announcements throw (file cannot be opened, stoi
\* fails on a row): main's catch block returns 1.
InputError ==
    /\ pc \in {"load", "seed"}
    /\ pc' = "exit"
    /\ exit_code' = <<1>>
    /\ UNCHANGED <<graphVars, rov_enabled_asns, routeVars, loopVars, cycle_detected,
                   converged, ribs_csv, seedVars, histVars, cmp>>

\* The result of the cycle check is not acted on.
CycleCheck_ignored ==
    /\ pc = "cycle_check"
    /\ \E order \in IterationOrders(all_asns) :
          cycle_detected' = <<has_customer_provider_cycle(order)>>
    /\ pc' = "rov"
    /\ UNCHANGED <<graphVars, rov_enabled_asns, routeVars, loopVars, converged, exit_code,
                   ribs_csv, seedVars, histVars, cmp>>

\* main lines 145-148.
CycleCheck ==
    /\ pc = "cycle_check"
    /\ \E order \in IterationOrders(all_asns) :
          cycle_detected' = <<has_customer_provider_cycle(order)>>
    /\ IF cycle_detected'[1]
       THEN pc' = "exit" /\ exit_code' = <<1>>
       ELSE pc' = "rov" /\ UNCHANGED exit_code
    /\ UNCHANGED <<graphVars, rov_enabled_asns, routeVars, loopVars, converged, ribs_csv,
                   seedVars, histVars, cmp>>

\* main lines 154-159: set_rov_asns with the loaded set (empty without a file).
SetRovAsns ==
    /\ pc = "rov"
    /\ \E rov_asns \in SUBSET ASNs : rov_enabled_asns' = rov_asns
    /\ pc' = "seed"
    /\ UNCHANGED <<graphVars, routeVars, loopVars, mainVars, seedVars, histVars, cmp>>

\* load_announcements, one row: seed_announcement(origin, prefix, rov_invalid).
SeedAnnouncement ==
    /\ pc = "seed"
    /\ num_seeded < MaxSeeds
    /\ \E origin_asn \in ASNs, prefix \in Prefixes, rov_invalid \in BOOLEAN :
          /\ all_asns' = all_asns \cup {origin_asn}
          /\ ribs' = seed_announcement(ribs, origin_asn, prefix, rov_invalid)
          /\ seeded' = [seeded EXCEPT ![origin_asn][prefix] = <<rov_invalid>>]
    /\ num_seeded' = num_seeded + 1
    /\ UNCHANGED <<pc, adjacency, rov_enabled_asns, message_queues, loopVars, mainVars,
                   histVars, cmp>>

\* --------------------------------------------------------------- propagate
\* prev_total_routes starts at the total after seeding.
StartPropagate_prev_from_seeds ==
    /\ pc = "seed"
    /\ \E zero_order \in IterationOrders(ZeroCustomerASNs) :
          rank_to_asns' = flatten_graph(zero_order)
    /\ iteration' = 0
    /\ prev_total_routes' = get_rib_count(ribs)
    /\ IF rank_to_asns' = <<>>
       THEN pc' \in {"loop", "crashed"}
       ELSE pc' = "loop"
    /\ UNCHANGED <<graphVars, rov_enabled_asns, routeVars, rank, mainVars, seedVars,
                   histVars, cmp>>

\* propagate lines 357-361: flatten_graph, iteration = 0, prev_total_routes = 0.
\* Line 242 reads rank_to_asns[0]; with no rank group that read is out of
\* bounds, and the process either is killed there (main never returns) or goes on.
StartPropagate ==
    /\ pc = "seed"
    /\ \E zero_order \in IterationOrders(ZeroCustomerASNs) :
          rank_to_asns' = flatten_graph(zero_order)
    /\ iteration' = 0
    /\ prev_total_routes' = 0
    /\ IF rank_to_asns' = <<>>
       THEN pc' \in {"loop", "crashed"}
       ELSE pc' = "loop"
    /\ UNCHANGED <<graphVars, rov_enabled_asns, routeVars, rank, mainVars, seedVars,
                   histVars, cmp>>

\* Lines 363-369: the head of while (true); Phase 1 starts at rank 0.
BeginIteration ==
    /\ pc = "loop"
    /\ iteration' = iteration + 1
    /\ iter_start_total' = get_rib_count(ribs)
    /\ rank' = 0
    /\ pc' = IF NumRanks > 0 THEN "p1_send" ELSE "check"
    /\ UNCHANGED <<graphVars, rov_enabled_asns, routeVars, rank_to_asns, prev_total_routes,
                   mainVars, seedVars, end_totals, cmp>>

\* Phase 1, lines 371-383: the ASes of `rank` send to their providers.
Phase1Send ==
    /\ pc = "p1_send"
    /\ message_queues' = send_from_rank(message_queues, RankGroup(rank), 1, C2P)
    /\ IF rank + 1 < NumRanks
       THEN pc' = "p1_process" /\ UNCHANGED rank
       ELSE pc' = "p2_send" /\ rank' = 0
    /\ UNCHANGED <<graphVars, rov_enabled_asns, ribs, rank_to_asns, iteration,
                   prev_total_routes, mainVars, seedVars, histVars, cmp>>

\* The rank that has just sent processes, not the next one.
Phase1Process_same_rank ==
    /\ pc = "p1_process"
    /\ LET st == process_rank([ribs |-> ribs, mq |-> message_queues], RankGroup(rank), 1)
       IN  ribs' = st.ribs /\ message_queues' = st.mq
    /\ rank' = rank + 1
    /\ pc' = "p1_send"
    /\ UNCHANGED <<graphVars, rov_enabled_asns, rank_to_asns, iteration, prev_total_routes,
                   mainVars, seedVars, histVars, cmp>>

\* Phase 1, lines 385-389: the next rank processes.
Phase1Process ==
    /\ pc = "p1_process"
    /\ LET st == process_rank([ribs |-> ribs, mq |-> message_queues], RankGroup(rank + 1), 1)
       IN  ribs' = st.ribs /\ message_queues' = st.mq
    /\ rank' = rank + 1
    /\ pc' = "p1_send"
    /\ UNCHANGED <<graphVars, rov_enabled_asns, rank_to_asns, iteration, prev_total_routes,
                   mainVars, seedVars, histVars, cmp>>

\* Phase 2, lines 395-407: the ASes of `rank` send to their peers.
Phase2Send ==
    /\ pc = "p2_send"
    /\ message_queues' = send_from_rank(message_queues, RankGroup(rank), 1, PEER)
    /\ pc' = "p2_process"
    /\ UNCHANGED <<graphVars, rov_enabled_asns, ribs, loopVars, mainVars, seedVars,
                   histVars, cmp>>

\* Phase 2, lines 408-410: the same rank processes.
Phase2Process ==
    /\ pc = "p2_process"
    /\ LET st == process_rank([ribs |-> ribs, mq |-> message_queues], RankGroup(rank), 1)
       IN  ribs' = st.ribs /\ message_queues' = st.mq
    /\ IF rank + 1 < NumRanks
       THEN pc' = "p2_send" /\ rank' = rank + 1
       ELSE pc' = "p3_send" /\ rank' = NumRanks - 1
    /\ UNCHANGED <<graphVars, rov_enabled_asns, rank_to_asns, iteration, prev_total_routes,
                   mainVars, seedVars, histVars, cmp>>

\* Phase 3, lines 417-429: the ASes of `rank` send to their customers.
Phase3Send ==
    /\ pc = "p3_send"
    /\ message_queues' = send_from_rank(message_queues, RankGroup(rank), 1, P2C)
    /\ pc' = IF rank > 0 THEN "p3_process" ELSE "check"
    /\ UNCHANGED <<graphVars, rov_enabled_asns, ribs, loopVars, mainVars, seedVars,
                   histVars, cmp>>

\* The rank that has just sent downward processes, not the previous one.
Phase3Process_same_rank ==
    /\ pc = "p3_process"
    /\ LET st == process_rank([ribs |-> ribs, mq |-> message_queues], RankGroup(rank), 1)
       IN  ribs' = st.ribs /\ message_queues' = st.mq
    /\ rank' = rank - 1
    /\ pc' = "p3_send"
    /\ UNCHANGED <<graphVars, rov_enabled_asns, rank_to_asns, iteration, prev_total_routes,
                   mainVars, seedVars, histVars, cmp>>

\* Phase 3, lines 431-435: the previous rank processes.
Phase3Process ==
    /\ pc = "p3_process"
    /\ LET st == process_rank([ribs |-> ribs, mq |-> message_queues], RankGroup(rank - 1), 1)
       IN  ribs' = st.ribs /\ message_queues' = st.mq
    /\ rank' = rank - 1
    /\ pc' = "p3_send"
    /\ UNCHANGED <<graphVars, rov_enabled_asns, rank_to_asns, iteration, prev_total_routes,
                   mainVars, seedVars, histVars, cmp>>

\* The iteration cap is not consulted: a changed total returns false at once.
EndIteration_no_cap ==
    /\ pc = "check"
    /\ LET total_routes == get_rib_count(ribs) IN
         /\ end_totals' = Append(end_totals, total_routes)
         /\ IF total_routes = prev_total_routes
            THEN /\ converged' = <<TRUE>>
                 /\ pc' = "returned"
                 /\ UNCHANGED prev_total_routes
            ELSE /\ prev_total_routes' = total_routes
                 /\ converged' = <<FALSE>> /\ pc' = "returned"
    /\ UNCHANGED <<graphVars, rov_enabled_asns, routeVars, rank_to_asns, iteration, rank,
                   cycle_detected, exit_code, ribs_csv, seedVars, iter_start_total, cmp>>

\* Lines 438-455: the convergence test that ends an iteration.
EndIteration ==
    /\ pc = "check"
    /\ LET total_routes == get_rib_count(ribs) IN
         /\ end_totals' = Append(end_totals, total_routes)
         /\ IF total_routes = prev_total_routes
            THEN /\ converged' = <<TRUE>>
                 /\ pc' = "returned"
                 /\ UNCHANGED prev_total_routes
            ELSE /\ prev_total_routes' = total_routes
                 /\ IF iteration >= IterationCap
                    THEN converged' = <<FALSE>> /\ pc' = "returned"
                    ELSE pc' = "loop" /\ UNCHANGED converged
    /\ UNCHANGED <<graphVars, rov_enabled_asns, routeVars, rank_to_asns, iteration, rank,
                   cycle_detected, exit_code, ribs_csv, seedVars, iter_start_total, cmp>>

\* main lines 170-185: exit 1 without exporting, or export and exit 0.
FinishRun ==
    /\ pc = "returned"
    /\ IF ~converged[1]
       THEN exit_code' = <<1>> /\ UNCHANGED ribs_csv
       ELSE exit_code' = <<0>> /\ ribs_csv' = <<export_ribs_csv(ribs)>>
    /\ pc' = "exit"
    /\ UNCHANGED <<graphVars, rov_enabled_asns, routeVars, loopVars, cycle_detected,
                   converged, seedVars, histVars, cmp>>

\* export_ribs_csv throws (ribs.csv cannot be created): catch block, return 1.
ExportError ==
    /\ pc = "returned"
    /\ converged = <<TRUE>>
    /\ exit_code' = <<1>>
    /\ pc' = "exit"
    /\ UNCHANGED <<graphVars, rov_enabled_asns, routeVars, loopVars, cycle_detected,
                   converged, ribs_csv, seedVars, histVars, cmp>>

Next ==
    \/ LoadGraph
    \/ InputError
    \/ CycleCheck
    \/ SetRovAsns
    \/ SeedAnnouncement
    \/ StartPropagate
    \/ BeginIteration
    \/ Phase1Send
    \/ Phase1Process
    \/ Phase2Send
    \/ Phase2Process
    \/ Phase3Send
    \/ Phase3Process
    \/ EndIteration
    \/ FinishRun
    \/ ExportError

Spec == Init /\ [][Next]_vars

\* ================================================================== claims
RibEntries == {<<a, p>> \in ASNs \X Prefixes : ribs[a][p] # NoRoute}
QueuedRoutes(a) ==
    UNION {{message_queues[a][p][i] : i \in 1..Len(message_queues[a][p])} : p \in Prefixes}

\* The relations of the graph's edges from s to r, as seen from s.
EdgeRels(s, r) ==
    {adjacency[s][k][2] : k \in {j \in 1..Len(adjacency[s]) : adjacency[s][j][1] = r}}

\* as_path = <<owner, ..., origin>>; hop i leads from as_path[i+1] to as_path[i],
\* so the hops are travelled from i = Len - 1 down to i = 1.  The path is
\* valley-free when its hops can be typed by edges of the graph so that every
\* hop following a peer hop or a provider->customer hop is provider->customer.
ValleyFree(as_path) ==
    LET n == Len(as_path) IN
    \E f \in [1..(n - 1) -> RelationType] :
        /\ \A i \in 1..(n - 1) : f[i] \in EdgeRels(as_path[i + 1], as_path[i])
        /\ \A i \in 1..(n - 2) : f[i + 1] # C2P => f[i] = P2C

\* C1: every RIB entry's as_path, replayed from its origin to its owner over
\* edges of the graph, is customer->provider hops, then at most one peer hop,
\* then provider->customer hops.
C1_ValleyFree == \A e \in RibEntries : ValleyFree(ribs[e[1]][e[2]].as_path)

\* A route that climbed to a provider and then crossed a peer edge or went
\* down again is installed somewhere.
C1_Witness ==
    \E e \in RibEntries :
        LET path == ribs[e[1]][e[2]].as_path IN
        /\ Len(path) = 3
        /\ C2P \in EdgeRels(path[3], path[2])
        /\ EdgeRels(path[2], path[1]) \cap {PEER, P2C} # {}

NoDuplicate(as_path) ==
    \A i, j \in 1..Len(as_path) : as_path[i] = as_path[j] => i = j

\* C2: no route held in a RIB or waiting in a message queue has an ASN twice
\* in its as_path.
C2_LoopFree ==
    /\ \A e \in RibEntries : NoDuplicate(ribs[e[1]][e[2]].as_path)
    /\ \A a \in ASNs : \A r \in QueuedRoutes(a) : NoDuplicate(r.as_path)

\* A provider holds its customer's route and is asked to send it back down:
\* the export to the AS already on the path is suppressed, the queue stays empty.
C2_Witness ==
    /\ pc = "check"
    /\ \E e \in RibEntries :
          LET path == ribs[e[1]][e[2]].as_path IN
          /\ Len(path) = 2
          /\ P2C \in EdgeRels(path[1], path[2])
          /\ QueuedRoutes(path[2]) = {}

\* C3: the last element of every RIB entry's as_path is an AS at which the
\* prefix was seeded, and the entry carries the rov_invalid flag seeded there.
C3_OriginPreserved ==
    \A e \in RibEntries :
        LET r == ribs[e[1]][e[2]] IN
        seeded[get_origin_asn(r)][e[2]] = <<r.rov_invalid>>

\* A route seeded as invalid has travelled two hops.
C3_Witness ==
    \E e \in RibEntries :
        /\ Len(ribs[e[1]][e[2]].as_path) = 3
        /\ ribs[e[1]][e[2]].rov_invalid

\* C4: the head of every RIB entry's as_path is the AS owning the RIB, and
\* the head of every queued route is the AS owning the queue.
C4_HeadIsOwner ==
    /\ \A e \in RibEntries : ribs[e[1]][e[2]].as_path[1] = e[1]
    /\ \A a \in ASNs : \A r \in QueuedRoutes(a) : r.as_path[1] = a

\* A received route is installed while another is still queued elsewhere.
C4_Witness ==
    /\ \E e \in RibEntries : Len(ribs[e[1]][e[2]].as_path) >= 2
    /\ \E a \in ASNs : QueuedRoutes(a) # {}

\* C5: every RIB entry of an ROV-enabled AS that was received from a
\* neighbour (as_path of length >= 2) has rov_invalid = FALSE.
C5_RovIngressDrop ==
    \A e \in RibEntries :
        (e[1] \in rov_enabled_asns /\ Len(ribs[e[1]][e[2]].as_path) >= 2)
            => ~ribs[e[1]][e[2]].rov_invalid

\* Spec scenario S3: a provider announces an invalid route, its ROV-enabled
\* customer has processed its queue and holds no entry.
C5_Witness ==
    /\ pc = "check"
    /\ \E a, b \in ASNs : \E p \in Prefixes :
          /\ P2C \in EdgeRels(a, b)
          /\ b \in rov_enabled_asns
          /\ ribs[a][p] # NoRoute /\ ribs[a][p].rov_invalid
          /\ ribs[a][p].as_path = <<a>>
          /\ ribs[b][p] = NoRoute

\* ------------------------------------------------ better_route on its own
\* better_route applied to routes drawn from bounded sets, under every ROV set.
MaxPathLen == 2

CmpPaths == UNION {[1..n -> ASNs] : n \in 1..MaxPathLen}
CmpRoutes(prefix) ==
    {Route(prefix, path, type, flag) :
        path \in CmpPaths, type \in AnnouncementType, flag \in BOOLEAN}

BetterInit ==
    /\ pc = "better_route"
    /\ adjacency = [a \in ASNs |-> <<>>]
    /\ all_asns = {}
    /\ rov_enabled_asns = {}
    /\ ribs = EmptyRibs
    /\ message_queues = EmptyQueues
    /\ rank_to_asns = <<>>
    /\ iteration = 0
    /\ prev_total_routes = 0
    /\ rank = 0
    /\ cycle_detected = <<>>
    /\ converged = <<>>
    /\ exit_code = <<>>
    /\ ribs_csv = <<>>
    /\ seeded = [a \in ASNs |-> [p \in Prefixes |-> <<>>]]
    /\ num_seeded = 0
    /\ iter_start_total = 0
    /\ end_totals = <<>>
    /\ cmp = NoCmp

\* set_rov_asns, called on the simulator before the comparison.
BetterSetRov ==
    /\ pc = "better_route"
    /\ ~cmp.used
    /\ \E rov_asns \in SUBSET ASNs : rov_enabled_asns' = rov_asns
    /\ UNCHANGED <<pc, graphVars, routeVars, loopVars, mainVars, seedVars, histVars, cmp>>

\* One evaluation of better_route(new_route, existing_route, deciding_asn).
BetterRouteCall ==
    /\ pc = "better_route"
    /\ ~cmp.used
    /\ \E prefix \in Prefixes : \E new_route, existing_route \in CmpRoutes(prefix) :
       \E deciding_asn \in ASNs :
          cmp' = [used |-> TRUE, new_route |-> new_route, existing_route |-> existing_route,
                  deciding_asn |-> deciding_asn,
                  result |-> better_route(new_route, existing_route, deciding_asn)]
    /\ UNCHANGED <<pc, graphVars, rov_enabled_asns, routeVars, loopVars, mainVars, seedVars,
                   histVars>>

NextBetter == BetterSetRov \/ BetterRouteCall

SpecBetter == BetterInit /\ [][NextBetter]_vars

\* The decision criteria as the specification lists them: the preference
\* table, and the key (preference, path length, next hop) compared in order.
PrefTable == [c \in AnnouncementType |->
                 CASE c = FROM_CUSTOMER -> 2 [] c = FROM_PEER -> 1 [] OTHER -> 0]
NextHopOf(r) == r.as_path[IF Len(r.as_path) = 1 THEN 1 ELSE 2]
Separates(k, c, e) ==
    CASE k = 2 -> PrefTable[c.announcement_type] # PrefTable[e.announcement_type]
      [] k = 3 -> Len(c.as_path) # Len(e.as_path)
      [] OTHER -> NextHopOf(c) # NextHopOf(e)
WinsAt(k, c, e) ==
    CASE k = 2 -> PrefTable[c.announcement_type] > PrefTable[e.announcement_type]
      [] k = 3 -> Len(c.as_path) < Len(e.as_path)
      [] OTHER -> NextHopOf(c) < NextHopOf(e)
RovSeparates(c, e, d, rov) == d \in rov /\ c.rov_invalid # e.rov_invalid
CandidateWins(c, e, d, rov) ==
    \/ RovSeparates(c, e, d, rov) /\ e.rov_invalid
    \/ /\ ~RovSeparates(c, e, d, rov)
       /\ \E k \in 2..4 : /\ Separates(k, c, e) /\ WinsAt(k, c, e)
                          /\ \A j \in 2..(k - 1) : ~Separates(j, c, e)

\* C6: better_route(C, E, D) is true iff C wins under the ordered criteria
\* ROV, local preference, path length, next hop; better_route(R, R, D) is
\* false, and better_route(C, E, D) and better_route(E, C, D) are never both true.
C6_DecisionProcess ==
    cmp.used =>
        /\ cmp.result = CandidateWins(cmp.new_route, cmp.existing_route,
                                      cmp.deciding_asn, rov_enabled_asns)
        /\ (cmp.new_route = cmp.existing_route => ~cmp.result)
        /\ ~(cmp.result /\ better_route(cmp.existing_route, cmp.new_route, cmp.deciding_asn))

\* Spec scenario S4 in small: equal preference and length, the candidate has
\* the lower next hop and wins.
C6_Witness ==
    /\ cmp.used
    /\ cmp.result
    /\ cmp.new_route.announcement_type = cmp.existing_route.announcement_type
    /\ cmp.new_route.rov_invalid = cmp.existing_route.rov_invalid
    /\ Len(cmp.new_route.as_path) = 2 /\ Len(cmp.existing_route.as_path) = 2
    /\ cmp.new_route.as_path[1] = cmp.deciding_asn
    /\ cmp.existing_route.as_path[1] = cmp.deciding_asn
    /\ cmp.new_route.as_path[2] < cmp.existing_route.as_path[2]

\* ------------------------------------------------- convergence and the cap
\* An iteration has just ended: propagate returned, or is back at the loop head.
IterationEnded == pc = "returned" \/ (pc = "loop" /\ iteration >= 1)
DeclaredConverged == pc = "returned" /\ converged = <<TRUE>>

\* C7 as stated: convergence is declared at the end of an iteration iff the
\* total RIB entry count at its end equals the total at its start (for the
\* first iteration, the total right after seeding).
C7_StableAcrossIteration ==
    IterationEnded => (DeclaredConverged <=> get_rib_count(ribs) = iter_start_total)

\* C7 amended: convergence is declared at the end of an iteration iff the
\* total at its end equals the total at the end of the previous iteration,
\* and for the first iteration iff the total is 0.
C7_StableSincePreviousIteration ==
    IterationEnded =>
        (DeclaredConverged <=>
            get_rib_count(ribs) = (IF iteration = 1 THEN 0 ELSE iter_start_total))

\* A seeded run whose first iteration was not declared converged ends in its
\* second iteration with the count unchanged.
C7_Witness ==
    /\ DeclaredConverged
    /\ iteration = 2
    /\ get_rib_count(ribs) = iter_start_total
    /\ iter_start_total > 0

DifferedEveryIteration ==
    /\ Len(end_totals) = IterationCap
    /\ \A i \in 1..IterationCap :
          end_totals[i] # (IF i = 1 THEN 0 ELSE end_totals[i - 1])

CapInvariant ==
    /\ iteration <= IterationCap
    /\ Len(end_totals) <= iteration
    /\ pc = "returned" => (converged = <<FALSE>> <=> DifferedEveryIteration)

\* Where propagate stands: (iteration, phase, step within the phase).  The
\* loop head counts as the end of the iteration that led to it.
InPropagate ==
    pc \in {"loop", "p1_send", "p1_process", "p2_send", "p2_process", "p3_send",
            "p3_process", "check"}
Position ==
    CASE pc = "p1_send" -> <<iteration, 1, 2 * rank>>
      [] pc = "p1_process" -> <<iteration, 1, 2 * rank + 1>>
      [] pc = "p2_send" -> <<iteration, 2, 2 * rank>>
      [] pc = "p2_process" -> <<iteration, 2, 2 * rank + 1>>
      [] pc = "p3_send" -> <<iteration, 3, 2 * (NumRanks - 1 - rank)>>
      [] pc = "p3_process" -> <<iteration, 3, 2 * (NumRanks - 1 - rank) + 1>>
      [] pc = "check" -> <<iteration, 4, 0>>
      [] pc = "loop" -> <<iteration, 5, 0>>
      [] OTHER -> <<iteration, 6, 0>>
LexLess(x, y) ==
    \/ x[1] < y[1]
    \/ x[1] = y[1] /\ x[2] < y[2]
    \/ x[1] = y[1] /\ x[2] = y[2] /\ x[3] < y[3]
PositionBounded ==
    /\ Position[1] \in 0..IterationCap
    /\ Position[3] \in 0..(2 * NumRanks + 1)

C9_NoWithdrawal ==
    [][/\ \A a \in ASNs, p \in Prefixes : ribs[a][p] # NoRoute => ribs'[a][p] # NoRoute
       /\ get_rib_count(ribs') >= get_rib_count(ribs)
       /\ \A i \in 1..Len(end_totals') : \A j \in i..Len(end_totals') :
             end_totals'[i] <= end_totals'[j]]_vars

\* process has replaced a route: an origin no longer holds its seeded route.
C9_Witness ==
    \E e \in RibEntries :
        /\ seeded[e[1]][e[2]] # <<>>
        /\ Len(ribs[e[1]][e[2]].as_path) >= 2

\* C10: ribs.csv is written only after the cycle check returned false and
\* propagate returned true; a detected cycle ends the run with exit code 1
\* before anything is seeded, sent or processed; a propagate that returned
\* false ends the run with exit code 1 and no export.
C10_NoOutputOnFailure ==
    /\ ribs_csv # <<>> => (cycle_detected = <<FALSE>> /\ converged = <<TRUE>>)
    /\ cycle_detected = <<TRUE>> =>
          /\ pc = "exit" /\ exit_code = <<1>>
          /\ num_seeded = 0 /\ ribs = EmptyRibs /\ message_queues = EmptyQueues
          /\ converged = <<>> /\ ribs_csv = <<>>
    /\ converged = <<FALSE>> =>
          /\ pc = "returned" \/ (pc = "exit" /\ exit_code = <<1>>)
          /\ ribs_csv = <<>>
    /\ (pc = "exit" /\ exit_code = <<0>>) => ribs_csv # <<>>

\* Spec scenario S5: a customer-provider cycle was detected and the run is over.
C10_Witness ==
    /\ cycle_detected = <<TRUE>>
    /\ pc = "exit"
    /\ \E a, b \in ASNs : a # b /\ P2C \in EdgeRels(a, b) /\ P2C \in EdgeRels(b, a)


\* --------------------------------------------------- graph-theoretic terms
\* a is a customer of b by some edge of the graph.
IsCustomerOf(a, b) == C2P \in EdgeRels(a, b)

RECURSIVE UpClosure(_)
UpClosure(S) ==
    LET more == S \cup {b \in ASNs : \E a \in S : IsCustomerOf(a, b)}
    IN  IF more = S THEN S ELSE UpClosure(more)

\* The ASes reached from a by one or more customer->provider edges.
ProvidersAbove(a) == UpClosure({b \in ASNs : IsCustomerOf(a, b)})
OnCustomerProviderCycle(a) == a \in ProvidersAbove(a)
GraphHasCustomerProviderCycle == \E a \in ASNs : OnCustomerProviderCycle(a)

\* C11: has_customer_provider_cycle returns true iff the graph has a directed
\* cycle of CustomerToProvider edges, whatever the duplicate edges,
\* self-relationships, peer edges and the order all_asns is iterated in.
C11_CycleCheckCorrect ==
    cycle_detected # <<>> => (cycle_detected[1] <=> GraphHasCustomerProviderCycle)

\* The check returned false on a graph where one pair is related twice, as
\* peers and as provider and customer.
C11_Witness ==
    /\ cycle_detected = <<FALSE>>
    /\ \E a, b \in ASNs : a # b /\ PEER \in EdgeRels(a, b) /\ P2C \in EdgeRels(a, b)


\* ------------------------------------- the simulator without main's check
\* A driver that uses ASGraph and BGPSimulator as main does, but never calls
\* has_customer_provider_cycle: propagate (and flatten_graph) on any graph.
SkipCycleCheck ==
    /\ pc = "cycle_check"
    /\ pc' = "rov"
    /\ UNCHANGED <<graphVars, rov_enabled_asns, routeVars, loopVars, mainVars, seedVars,
                   histVars, cmp>>

NextNoCheck ==
    \/ LoadGraph
    \/ InputError
    \/ SkipCycleCheck
    \/ SetRovAsns
    \/ SeedAnnouncement
    \/ StartPropagate
    \/ BeginIteration
    \/ Phase1Send
    \/ Phase1Process
    \/ Phase2Send
    \/ Phase2Process
    \/ Phase3Send
    \/ Phase3Process
    \/ EndIteration
    \/ FinishRun
    \/ ExportError

SpecNoCheck == Init /\ [][NextNoCheck]_vars

\* The Rank Index read off rank_to_asns: the ranks an AS is listed under, how
\* often it is listed, and asn_to_rank (line 227: the last assignment stays).
RanksOf(a) ==
    {r \in 0..(NumRanks - 1) : \E i \in 1..Len(RankGroup(r)) : RankGroup(r)[i] = a}
TimesListed(a) ==
    Cardinality({x \in (0..(NumRanks - 1)) \X (1..MaxASN) :
                    x[2] <= Len(RankGroup(x[1])) /\ RankGroup(x[1])[x[2]] = a})
HasRank(a) == RanksOf(a) # {}
asn_to_rank(a) == CHOOSE r \in RanksOf(a) : \A q \in RanksOf(a) : q <= r
CustomersOf(a) == {c \in ASNs : P2C \in EdgeRels(a, c)}

\* C12: after flatten_graph on any graph, cyclic or not, an AS with a rank
\* is listed exactly once, and each of its customers has a rank that is
\* strictly smaller.
C12_RankWellFormed ==
    \A a \in ASNs :
        HasRank(a) =>
            /\ TimesListed(a) = 1
            /\ \A c \in CustomersOf(a) : HasRank(c) /\ asn_to_rank(c) < asn_to_rank(a)

\* A graph with a customer-provider cycle was flattened, and an AS off the
\* cycle got a rank above its customer.
C12_Witness ==
    /\ GraphHasCustomerProviderCycle
    /\ \E a \in ASNs : HasRank(a) /\ CustomersOf(a) # {}


\* flatten_graph has just returned (the Rank Index is not written afterwards).
FlattenDone == pc \in {"loop", "crashed"} /\ iteration = 0

\* Length of the longest chain of customer->provider edges ending at a
\* (defined when the customer->provider relation is acyclic).
RECURSIVE Height(_)
Height(a) ==
    IF CustomersOf(a) = {} THEN 0
    ELSE LET hs == {Height(c) : c \in CustomersOf(a)}
         IN  1 + (CHOOSE h \in hs : \A g \in hs : g <= h)

SeedRibs ==
    [a \in ASNs |-> [p \in Prefixes |->
        IF seeded[a][p] = <<>> THEN NoRoute
        ELSE Route(p, <<a>>, FROM_CUSTOMER, seeded[a][p][1])]]

AscendingOrder(S) ==
    CHOOSE s \in IterationOrders(S) : \A i, j \in 1..Cardinality(S) : i < j => s[i] < s[j]

\* C14: for a fixed graph, fixed seeded announcements and fixed ROV set, the
\* RIBs at the return of propagate, its result and the rows written to
\* ribs.csv do not depend on the order in which the hash containers are
\* iterated: they are those of the run that meets the zero-customer ASes in
\* ascending order.
C14_OutputDeterminism ==
    (pc = "returned" \/ (pc = "exit" /\ converged # <<>>)) =>
        LET out == propagate(SeedRibs, AscendingOrder(ZeroCustomerASNs))
        IN  /\ \A a \in ASNs : ribs[a] = out.ribs[a]
            /\ converged = <<out.result>>
            /\ ribs_csv # <<>> => ribs_csv[1] = export_ribs_csv(out.ribs)

\* propagate returned after a run whose rank groups are ordered differently
\* from the ascending run, two origins were seeded and a route was learned.
C14_Witness ==
    /\ pc = "returned"
    /\ rank_to_asns # flatten_graph(AscendingOrder(ZeroCustomerASNs))
    /\ Cardinality({a \in ASNs : \E p \in Prefixes : seeded[a][p] # <<>>}) >= 2
    /\ \E a \in ASNs, p \in Prefixes : ribs[a][p] # NoRoute /\ Len(ribs[a][p].as_path) >= 2


\* A call of seed_announcement.
SeedCall == num_seeded' = num_seeded + 1
\* A call of seed_announcement with an (origin, prefix, rov_invalid) that was
\* the last one seeded for this origin and prefix.
RepeatedSeedCall == SeedCall /\ seeded' = seeded

\* C15: a call of seed_announcement that repeats the (origin, prefix,
\* rov_invalid) of an earlier call changes nothing; after any call the
\* origin's RIB holds for the prefix the one entry with as_path [origin],
\* type LearnedFromCustomer and the supplied flag, and no other RIB slot and
\* no queue is touched.
C15_SeedIdempotent ==
    [][/\ RepeatedSeedCall =>
            /\ ribs' = ribs
            /\ all_asns' = all_asns
            /\ message_queues' = message_queues
       /\ SeedCall =>
            /\ message_queues' = message_queues
            /\ \E a \in ASNs, p \in Prefixes :
                  /\ seeded'[a][p] # <<>>
                  /\ ribs'[a][p] = Route(p, <<a>>, FROM_CUSTOMER, seeded'[a][p][1])
                  /\ a \in all_asns'
                  /\ \A b \in ASNs, q \in Prefixes :
                        <<b, q>> # <<a, p>> =>
                            ribs'[b][q] = ribs[b][q] /\ seeded'[b][q] = seeded[b][q]]_vars

\* Two calls were made, both for the same origin and prefix.
C15_Witness ==
    /\ pc = "seed"
    /\ num_seeded = 2
    /\ Cardinality({x \in ASNs \X Prefixes : seeded[x[1]][x[2]] # <<>>}) = 1


\* ASes at the end of a valley-free path from o: customer->provider hops,
\* then at most one peer hop, then provider->customer hops.
PeerStep(S) == S \cup {b \in ASNs : \E a \in S : PEER \in EdgeRels(a, b)}
RECURSIVE DownClosure(_)
DownClosure(S) ==
    LET more == S \cup {b \in ASNs : \E a \in S : P2C \in EdgeRels(a, b)}
    IN  IF more = S THEN S ELSE DownClosure(more)
ValleyFreeReachable(o) == DownClosure(PeerStep(UpClosure({o})))
SeededAt(a, p) == seeded[a][p] # <<>>

\* C16: on an acyclic graph with an empty ROV set, when propagate returns
\* true an AS has a RIB entry for a prefix if and only if the prefix is
\* seeded at it or a valley-free path leads to it from an AS seeded with the
\* prefix.
C16_ReachabilityComplete ==
    (/\ pc = "returned"
     /\ converged = <<TRUE>>
     /\ rov_enabled_asns = {}
     /\ ~GraphHasCustomerProviderCycle) =>
        \A a \in ASNs, p \in Prefixes :
            ribs[a][p] # NoRoute <=>
                \/ SeededAt(a, p)
                \/ \E o \in ASNs : SeededAt(o, p) /\ a \in ValleyFreeReachable(o)

\* propagate returned true with an empty ROV set; a route crossed a peer
\* edge, and an AS of the graph that no valley-free path reaches has no entry.
C16_Witness ==
    /\ pc = "returned"
    /\ converged = <<TRUE>>
    /\ rov_enabled_asns = {}
    /\ \E a \in ASNs, p \in Prefixes :
          ribs[a][p] # NoRoute /\ ribs[a][p].announcement_type = FROM_PEER
    /\ \E a \in all_asns, p \in Prefixes :
          ribs[a][p] = NoRoute /\ \E o \in ASNs : SeededAt(o, p)


\* The rank group whose ASes call process_messages in the next step.
ProcessingGroup ==
    CASE pc = "p1_process" -> RankGroup(rank + 1)
      [] pc = "p2_process" -> RankGroup(rank)
      [] pc = "p3_process" -> RankGroup(rank - 1)
      [] OTHER -> <<>>
Processing == {ProcessingGroup[i] : i \in 1..Len(ProcessingGroup)}
\* The comparisons AS a makes in that step (an AS reads and writes only its
\* own queue and RIB while a group processes).
PendingComparisons(a) ==
    UNION {comparisons(ribs[a][p], message_queues[a][p], 1, a) : p \in Prefixes}

\* C17: whenever process_messages compares a candidate with the installed
\* route at an ROV-enabled AS, the two routes agree on rov_invalid (the ROV
\* clause of better_route decides nothing there).
C17_RovClauseNeverDecides ==
    \A a \in Processing :
        a \in rov_enabled_asns =>
            \A c \in PendingComparisons(a) : c[1].rov_invalid = c[2].rov_invalid


\* The ASes of rank >= 1 that send upward in the next step.
Phase1Senders ==
    IF pc = "p1_send" /\ rank >= 1
    THEN {RankGroup(rank)[i] : i \in 1..Len(RankGroup(rank))}
    ELSE {}
\* The advertisement customer c makes to its provider a for prefix p was
\* taken into account at a: a holds a route that the advertisement does not beat.
CustomerRouteProcessed(c, a, p) ==
    LET route == ribs[c][p] IN
        (/\ route # NoRoute
         /\ ~InPath(a, route.as_path)
         /\ can_export(route, C2P)
         /\ ~(a \in rov_enabled_asns /\ route.rov_invalid)) =>
            /\ ribs[a][p] # NoRoute
            /\ ~better_route(sent_route(a, route, C2P), ribs[a][p], a)

\* C18: when the ASes of a rank >= 1 send upward in Phase 1, their message
\* queues are empty and stay empty while the group sends, and what their
\* customers advertised in this phase has been processed into their RIBs.
C18_Phase1Ordering ==
    /\ [](\A a \in Phase1Senders :
            /\ \A p \in Prefixes : message_queues[a][p] = <<>>
            /\ \A c \in CustomersOf(a), p \in Prefixes : CustomerRouteProcessed(c, a, p))
    /\ [][\A a \in Phase1Senders : message_queues'[a] = message_queues[a]]_vars

\* An AS of rank >= 1 is about to send upward a route it learned from a
\* customer in this phase of the first iteration.
C18_Witness ==
    /\ iteration = 1
    /\ \E a \in Phase1Senders, p \in Prefixes :
          /\ ribs[a][p] # NoRoute
          /\ Len(ribs[a][p].as_path) >= 2
          /\ ribs[a][p].announcement_type = FROM_CUSTOMER
          /\ \E b \in ASNs : C2P \in EdgeRels(a, b)


\* The relationship, seen from the receiver a, that the graph must hold
\* towards the next hop n for an entry of the given type.
TypeMatchesEdge(type, a, n) ==
    CASE type = FROM_CUSTOMER -> P2C \in EdgeRels(a, n) /\ C2P \in EdgeRels(n, a)
      [] type = FROM_PEER -> PEER \in EdgeRels(a, n) /\ PEER \in EdgeRels(n, a)
      [] type = FROM_PROVIDER -> C2P \in EdgeRels(a, n) /\ P2C \in EdgeRels(n, a)
      [] OTHER -> FALSE

\* C19: every RIB entry at AS a with a path of length >= 2 has the
\* announcement type of an edge of the graph between a and the next hop, as
\* a sees it (LearnedFromCustomer: the next hop is a customer of a, and so
\* on); every one-element entry has type LearnedFromCustomer.
C19_TypeIsReceiversView ==
    \A a \in ASNs, p \in Prefixes :
        ribs[a][p] # NoRoute =>
            IF Len(ribs[a][p].as_path) >= 2
            THEN TypeMatchesEdge(ribs[a][p].announcement_type, a, ribs[a][p].as_path[2])
            ELSE ribs[a][p].announcement_type = FROM_CUSTOMER

\* One AS holds a route learned from a peer, another a route learned from a
\* provider.
C19_Witness ==
    \A type \in {FROM_PEER, FROM_PROVIDER} :
        \E a \in ASNs, p \in Prefixes :
            /\ ribs[a][p] # NoRoute
            /\ Len(ribs[a][p].as_path) >= 2
            /\ ribs[a][p].announcement_type = type


\* The ASes on a customer-provider cycle or with a customer, direct or
\* transitive, on one.
OnOrAboveCycle ==
    {a \in all_asns : \E c \in ASNs : OnCustomerProviderCycle(c) /\ a \in ProvidersAbove(c)}
UnrankedASes == {a \in all_asns : ~HasRank(a)}
\* propagate is past flatten_graph and has not returned to main's exit.
Flattened == InPropagate \/ pc = "returned"
IsPrefixOf(s, t) == Len(s) <= Len(t) /\ SubSeq(t, 1, Len(s)) = s

\* C20: flatten_graph ranks every AS of the graph exactly when
\* has_customer_provider_cycle returns false; the ASes left without a rank
\* are exactly those on a customer-provider cycle or above one; an unranked
\* AS never processes (its RIB stays as seeded, its queue is never cleared)
\* and never sends (no route anywhere has it as next hop).
C20_FlattenAgreesWithCycleCheck ==
    /\ [](FlattenDone =>
            /\ \A order \in IterationOrders(all_asns) :
                  (UnrankedASes = {}) <=> ~has_customer_provider_cycle(order)
            /\ UnrankedASes = OnOrAboveCycle)
    /\ [](Flattened =>
            \A x \in UnrankedASes :
                /\ ribs[x] = SeedRibs[x]
                /\ \A a \in ASNs :
                      \A r \in QueuedRoutes(a) \cup {ribs[e[1]][e[2]] : e \in RibEntries} :
                          Len(r.as_path) >= 2 => r.as_path[2] # x)
    /\ [][Flattened =>
            \A x \in UnrankedASes, p \in Prefixes :
                IsPrefixOf(message_queues[x][p], message_queues'[x][p])]_vars

\* propagate returned on a graph with a customer-provider cycle: an unranked
\* AS holds a seeded route it never sent and a queued route it never processed.
C20_Witness ==
    /\ pc = "returned"
    /\ \E x \in UnrankedASes, p \in Prefixes :
          /\ ribs[x][p] # NoRoute
          /\ message_queues[x][p] # <<>>
          /\ \E n \in ASNs : n # x /\ EdgeRels(x, n) # {}


\* C21: on every acyclic graph, for every set of seeds and every ROV set, no
\* step of the second iteration of propagate adds or replaces a RIB entry
\* (the RIBs at its end are those at the end of iteration 1), there is no
\* third iteration, and propagate returns true.
C21_OnePassSuffices ==
    /\ [](iteration <= 2 /\ (pc = "returned" => converged = <<TRUE>>))
    /\ [][iteration = 2 => \A a \in ASNs : ribs'[a] = ribs[a]]_vars

\* The second iteration has run to its end after a first one in which a
\* route travelled up to a provider and down to another customer.
C21_Witness ==
    /\ pc = "check"
    /\ iteration = 2
    /\ \E a \in ASNs, p \in Prefixes :
          /\ ribs[a][p] # NoRoute
          /\ Len(ribs[a][p].as_path) = 3
          /\ ribs[a][p].announcement_type = FROM_PROVIDER


QueueEmpty(a) == \A p \in Prefixes : message_queues[a][p] = <<>>

\* C22: on every acyclic graph the message queue of every AS is empty at the
\* end of each iteration (after Phase 3, at the convergence test and until
\* the next iteration sends), so every route enqueued in Phase 1, 2 or 3 was
\* processed within the iteration; a processing step leaves the queues of
\* the ASes that processed empty.
C22_QueuesDrain ==
    /\ [](pc \in {"check", "loop", "returned"} => \A a \in ASNs : QueueEmpty(a))
    /\ [][\A a \in Processing : \A p \in Prefixes : message_queues'[a][p] = <<>>]_vars

\* An iteration ended in which an AS learned a route over a peer edge from
\* an AS of higher rank (the advertisement waited in its queue until Phase 3).
C22_Witness ==
    /\ pc = "check"
    /\ \E a \in ASNs, p \in Prefixes :
          /\ ribs[a][p] # NoRoute
          /\ Len(ribs[a][p].as_path) >= 2
          /\ ribs[a][p].announcement_type = FROM_PEER
          /\ HasRank(a) /\ HasRank(ribs[a][p].as_path[2])
          /\ asn_to_rank(ribs[a][p].as_path[2]) > asn_to_rank(a)


\* The entry of a for p was learned from its next hop, which still holds the
\* route it advertised.
NextHopHolds(a, p) ==
    LET route == ribs[a][p]
        n == route.as_path[2]
    IN  /\ ribs[n][p] # NoRoute
        /\ ribs[n][p].as_path = Tail(route.as_path)
        /\ ribs[n][p].rov_invalid = route.rov_invalid

\* C23: when propagate returns true on an acyclic graph, for every RIB entry
\* at AS a with as_path (a, n, rest...) the RIB entry of n for the same
\* prefix has as_path (n, rest...) and the same rov_invalid.
C23_NextHopConsistent ==
    (pc = "returned" /\ converged = <<TRUE>>) =>
        \A a \in ASNs, p \in Prefixes :
            (ribs[a][p] # NoRoute /\ Len(ribs[a][p].as_path) >= 2) => NextHopHolds(a, p)


\* C24: for every seeded announcement (origin a, prefix p), in every state
\* during and after propagation the RIB entry of a for p is still the
\* one-element route [a] with the seeded rov_invalid flag.
C24_OriginKeepsOwnRoute ==
    \A a \in ASNs, p \in Prefixes :
        SeededAt(a, p) => ribs[a][p] = Route(p, <<a>>, FROM_CUSTOMER, seeded[a][p][1])


\* C25: on every input that reaches propagate, flatten_graph produces at
\* least one rank group, so the read of rank_to_asns[0] after the drain loop
\* (line 242) is within bounds and the process is not killed there.
C25_RankIndexNonEmpty ==
    /\ FlattenDone => NumRanks >= 1
    /\ pc # "crashed"

====
